---------------------------- MODULE Spec2Model ----------------------------
(***************************************************************************)
(* cleanipy: duplicate detection (analyzers/duplicate_analyzer.py,         *)
(* utils/file_utils.py) and duplicate consolidation                        *)
(* (cleaners/duplicate_cleaner.py) over a small file system.               *)
(*                                                                         *)
(* A path is a number of 1..NumPaths.  A directory entry is a regular file *)
(* (a name of an inode), a symbolic link or absent; content and            *)
(* modification time belong to the inode, so hard links share them.        *)
(* Python exceptions are values: every modelled call returns               *)
(* [exc |-> "none", val |-> v] or [exc |-> <exception class>, val |-> 0].  *)
(***************************************************************************)
EXTENDS Integers, Sequences, FiniteSets, TLC

NumPaths == 4
MaxLen == 1
MaxMtime == 2

Paths == 1..NumPaths
Bytes == {"x", "y"}
\* File contents: a byte repeated n times ("x"*n, "y"*n), n = 0..MaxLen.
Contents == {[i \in 1..n |-> b] : n \in 0..MaxLen, b \in Bytes}
Mtimes == 1..MaxMtime
MinSizes == 0..(MaxLen + 1)
\* The orders in which os.walk may list the entries.
WalkOrders == {o \in [Paths -> Paths] : \A i, j \in Paths : o[i] = o[j] => i = j}
\* How a path answers stat and read during a scan:
\*   ok       both succeed
\*   noread   stat succeeds, open raises PermissionError
\*   nostat   stat and open raise PermissionError / FileNotFoundError
\*   staterr  stat raises another OSError (EIO, ESTALE, ...)
\*   readerr  stat succeeds, read raises another OSError (EIO, ...)
AccessModes == {"ok", "noread", "nostat", "staterr", "readerr"}

VARIABLES
    fs,        \* path -> [kind, ino, target]: the directory entries
    inode,     \* inode -> [content, mtime]
    acc,       \* path -> AccessModes
    collide,   \* <<c1, c2>>: get_file_hash patched so that c2 hashes as c1
    min_size,  \* the min_size argument of the scans
    runs,      \* number of completed find_duplicate_files_by_content calls
    last,      \* outcome of the latest call
    prev,      \* outcome of the call before it, compared order-independently
    fs0,       \* the directory entries when the operation under study began
    fault,     \* [kind, path]: what the environment refuses during consolidation
    pc,        \* "idle", "group", "member", "returned", "raised"
    args,      \* [strategy, duplicates, keep_newest, callback] of the call
    loop,      \* [gi, files_sorted, source_file, todo, mi]: the two for loops
    result,    \* [total_size_bytes, total_count, details]
    trace      \* [calls, ops, exc]: callback calls, file operations, escaped exception

scanvars == <<collide, min_size, runs, last, prev>>
cleanvars == <<fault, pc, args, loop, result, trace>>
vars == <<fs, inode, acc, fs0, scanvars, cleanvars>>

Return(v) == [exc |-> "none", val |-> v]
Raise(e) == [exc |-> e, val |-> 0]

Range(s) == {s[i] : i \in 1..Len(s)}

----------------------------------------------------------------------------
(* The file system calls the scanned code makes.                           *)

\* A link target is a path string: absolute, or relative to the working
\* directory of the process that wrote it.
NoTarget == [abs |-> FALSE, path |-> 0]
Absent == [kind |-> "absent", ino |-> 0, target |-> NoTarget]
RegularFile(i) == [kind |-> "file", ino |-> i, target |-> NoTarget]
SymlinkTo(t) == [kind |-> "symlink", ino |-> 0, target |-> t]

\* Mutant of abspath: the path as given, relative to the working directory.
path_as_given(p) == [abs |-> FALSE, path |-> p]

\* os.path.abspath
abspath(p) == [abs |-> TRUE, path |-> p]

\* The regular file a path names in directory table f, following one symbolic
\* link (an absolute target resolves wherever the link lies); 0 if none.
ResolveIn(f, p) ==
    IF f[p].kind = "file" THEN p
    ELSE IF f[p].kind = "symlink" /\ f[p].target.abs
                                  /\ f[p].target.path \in Paths
                                  /\ f[f[p].target.path].kind = "file"
         THEN f[p].target.path
         ELSE 0

Resolve(p) == ResolveIn(fs, p)

islink(p) == fs[p].kind = "symlink"

ContentOf(p) == inode[fs[Resolve(p)].ino].content

\* os.stat in directory table f, following symbolic links: the inode, or the
\* OSError raised.
stat_in(f, p) ==
    IF acc[p] = "staterr" THEN Raise("OSError")
    ELSE IF acc[p] = "nostat" THEN Raise("PermissionError")
    ELSE IF ResolveIn(f, p) = 0 THEN Raise("FileNotFoundError")
    ELSE Return(f[ResolveIn(f, p)].ino)

stat(p) == stat_in(fs, p)

\* os.path.getsize
getsize(p) ==
    LET st == stat(p)
    IN  IF st.exc # "none" THEN st ELSE Return(Len(inode[st.val].content))

\* os.path.getmtime in directory table f
getmtime_in(f, p) ==
    LET st == stat_in(f, p)
    IN  IF st.exc # "none" THEN st ELSE Return(inode[st.val].mtime)

getmtime(p) == getmtime_in(fs, p)

\* Mutant of sha256: the read loop never feeds the hasher, so every file gets
\* the digest of the empty stream.
sha256_of_nothing(c) == <<"sha256">>

\* hashlib.sha256 over the whole stream: never empty, and one digest per
\* content; a patched get_file_hash maps collide[2] to the digest of collide[1].
sha256(c) == <<"sha256">> \o (IF c = collide[2] THEN collide[1] ELSE c)

\* open(file_path, 'rb') and the read loop.
read_and_hash(p) ==
    IF acc[p] = "readerr" THEN Raise("OSError")
    ELSE IF acc[p] \in {"noread", "nostat"} THEN Raise("PermissionError")
    ELSE IF Resolve(p) = 0 THEN Raise("FileNotFoundError")
    ELSE Return(sha256(ContentOf(p)))

----------------------------------------------------------------------------
(* utils/file_utils.py                                                     *)

get_file_size(p) ==
    LET r == getsize(p)
    IN  IF r.exc \in {"FileNotFoundError", "PermissionError"} THEN Return(0) ELSE r

get_file_hash(p) ==
    LET r == read_and_hash(p)
    IN  IF r.exc \in {"FileNotFoundError", "PermissionError"} THEN Return(<<>>) ELSE r

----------------------------------------------------------------------------
(* analyzers/duplicate_analyzer.py                                         *)

\* Mutant of dict_append: only the most recent key is looked up, as if the
\* items arrived sorted by key.
dict_append_adjacent(d, key, item) ==
    IF d # <<>> /\ d[Len(d)].key = key
    THEN [d EXCEPT ![Len(d)].files = Append(@, item)]
    ELSE Append(d, [key |-> key, files |-> <<item>>])

\* defaultdict(list): d[key].append(item), keys kept in insertion order.
dict_append(d, key, item) ==
    IF \E i \in 1..Len(d) : d[i].key = key
    THEN [i \in 1..Len(d) |->
            IF d[i].key = key THEN [d[i] EXCEPT !.files = Append(@, item)] ELSE d[i]]
    ELSE Append(d, [key |-> key, files |-> <<item>>])

\* "if size >= min_size"
size_ok(size, minsz) == size >= minsz

\* Mutant of keep_bucket: "if len(files) > 0".
keep_bucket_nonempty(files) == Len(files) > 0

\* "if len(files) > 1" of find_duplicate_files_by_size
keep_bucket(files) == Len(files) > 1

\* Mutant of keep_group: "if len(files) > 0".
keep_group_nonempty(files) == Len(files) > 0

\* "if len(files) > 1" of find_duplicate_files_by_content
keep_group(files) == Len(files) > 1

\* Mutant of skip_link: the islink test is missing.
skip_no_link(p) == FALSE

\* "if os.path.islink(file_path): continue"
skip_link(p) == islink(p)

\* The os.walk loop of find_duplicate_files_by_size from entry i of the listing.
RECURSIVE size_walk(_, _, _, _)
size_walk(order, i, minsz, size_dict) ==
    IF i > Len(order) THEN Return(size_dict)
    ELSE LET p == order[i]
         IN  IF fs[p].kind = "absent" \/ skip_link(p)
             THEN size_walk(order, i + 1, minsz, size_dict)
             ELSE LET s == get_file_size(p)
                  IN  IF s.exc \in {"PermissionError", "FileNotFoundError"}
                      THEN size_walk(order, i + 1, minsz, size_dict)
                      ELSE IF s.exc # "none" THEN s
                      ELSE IF size_ok(s.val, minsz)
                      THEN size_walk(order, i + 1, minsz, dict_append(size_dict, s.val, p))
                      ELSE size_walk(order, i + 1, minsz, size_dict)

find_duplicate_files_by_size(order, minsz) ==
    LET r == size_walk(order, 1, minsz, <<>>)
    IN  IF r.exc # "none" THEN r
        ELSE Return(SelectSeq(r.val, LAMBDA b : keep_bucket(b.files)))

\* size_dict.items() x files, in iteration order: <<size, path>> pairs.
RECURSIVE Flatten(_, _)
Flatten(size_dict, i) ==
    IF i > Len(size_dict) THEN <<>>
    ELSE [j \in 1..Len(size_dict[i].files) |->
             [size |-> size_dict[i].key, path |-> size_dict[i].files[j]]]
         \o Flatten(size_dict, i + 1)

\* The hashing loop of find_duplicate_files_by_content from item i; hashed is
\* the sequence of paths get_file_hash has been called on.
RECURSIVE hash_loop(_, _, _, _)
hash_loop(items, i, hash_dict, hashed) ==
    IF i > Len(items) THEN [exc |-> "none", val |-> hash_dict, hashed |-> hashed]
    ELSE LET p == items[i].path
             h == get_file_hash(p)
         IN  IF h.exc \in {"PermissionError", "FileNotFoundError"}
             THEN hash_loop(items, i + 1, hash_dict, Append(hashed, p))
             ELSE IF h.exc # "none"
             THEN [exc |-> h.exc, val |-> <<>>, hashed |-> Append(hashed, p)]
             ELSE IF h.val # <<>>
             THEN hash_loop(items, i + 1,
                            dict_append(hash_dict, h.val,
                                        [path |-> p, size_bytes |-> items[i].size]),
                            Append(hashed, p))
             ELSE hash_loop(items, i + 1, hash_dict, Append(hashed, p))

\* [exc, buckets (what find_duplicate_files_by_size returned), val (the
\* returned groups), hashed].
find_duplicate_files_by_content(order, minsz) ==
    LET sd == find_duplicate_files_by_size(order, minsz)
    IN  IF sd.exc # "none"
        THEN [exc |-> sd.exc, buckets |-> <<>>, val |-> <<>>, hashed |-> <<>>]
        ELSE LET r == hash_loop(Flatten(sd.val, 1), 1, <<>>, <<>>)
             IN  [exc |-> r.exc, buckets |-> sd.val,
                  val |-> IF r.exc = "none"
                          THEN SelectSeq(r.val, LAMBDA g : keep_group(g.files))
                          ELSE <<>>,
                  hashed |-> r.hashed]

\* An outcome compared order-independently: the exception, and the groups as a
\* set of (hash, set of member paths).
GroupSet(r) ==
    [exc |-> r.exc,
     groups |-> {[hash |-> r.val[i].key,
                  paths |-> {r.val[i].files[j].path : j \in 1..Len(r.val[i].files)}]
                 : i \in 1..Len(r.val)}]

\* Mutant of group_wasted: every member of the group is counted as waste.
group_wasted_all(files) == Len(files) * files[1].size_bytes

\* (len(files) - 1) * files[0]["size_bytes"]
group_wasted(files) == (Len(files) - 1) * files[1].size_bytes

\* sum(len(files) - 1 for files in duplicates.values()), from group i on
RECURSIVE sum_duplicate_files(_, _)
sum_duplicate_files(duplicates, i) ==
    IF i > Len(duplicates) THEN 0
    ELSE Len(duplicates[i].files) - 1 + sum_duplicate_files(duplicates, i + 1)

\* sum((len(files) - 1) * files[0]["size_bytes"] for ...), from group i on
RECURSIVE sum_wasted_space(_, _)
sum_wasted_space(duplicates, i) ==
    IF i > Len(duplicates) THEN 0
    ELSE group_wasted(duplicates[i].files) + sum_wasted_space(duplicates, i + 1)

\* The statistics analyze_duplicate_files computes from the groups.
statistics(duplicates) ==
    [total_duplicate_sets |-> Len(duplicates),
     total_duplicate_files |-> sum_duplicate_files(duplicates, 1),
     total_wasted_space_bytes |-> sum_wasted_space(duplicates, 1),
     duplicates |-> duplicates]

\* analyze_duplicate_files(directory, min_size): the detection's exception
\* leaves it unchanged.
analyze_duplicate_files(order, minsz) ==
    LET d == find_duplicate_files_by_content(order, minsz)
    IN  IF d.exc # "none" THEN Raise(d.exc) ELSE Return(statistics(d.val))

----------------------------------------------------------------------------
(* cleaners/duplicate_cleaner.py: the file operations.  Each takes the     *)
(* directory table f and returns [exc, fs].                                *)

IsOSError(e) == e \in {"OSError", "PermissionError", "FileNotFoundError", "FileExistsError"}

lexists(f, p) == f[p].kind # "absent"

\* Mutant of send2trash: reports success and leaves the entry in place.
send2trash_nothing(f, p) == [exc |-> "none", fs |-> f]

\* send2trash.send2trash: moves the entry to the trash.
send2trash(f, p) ==
    IF ~lexists(f, p) THEN [exc |-> "OSError", fs |-> f]
    ELSE IF fault.kind = "notrash" THEN [exc |-> "OSError", fs |-> f]
    ELSE IF fault.kind = "noremove" /\ fault.path = p
    THEN [exc |-> "PermissionError", fs |-> f]
    ELSE [exc |-> "none", fs |-> [f EXCEPT ![p] = Absent]]

\* os.remove
os_remove(f, p) ==
    IF ~lexists(f, p) THEN [exc |-> "FileNotFoundError", fs |-> f]
    ELSE IF fault.kind = "noremove" /\ fault.path = p
    THEN [exc |-> "PermissionError", fs |-> f]
    ELSE [exc |-> "none", fs |-> [f EXCEPT ![p] = Absent]]

\* Mutant of os_link: a copy, a new file with an inode of its own.
os_link_copy(f, src, dst) == [exc |-> "none", fs |-> [f EXCEPT ![dst] = RegularFile(dst)]]

\* os.link(src, dst)
os_link(f, src, dst) ==
    IF ~lexists(f, src) THEN [exc |-> "FileNotFoundError", fs |-> f]
    ELSE IF lexists(f, dst) THEN [exc |-> "FileExistsError", fs |-> f]
    ELSE IF fault.kind = "nolink" /\ fault.path = dst THEN [exc |-> "OSError", fs |-> f]
    ELSE [exc |-> "none", fs |-> [f EXCEPT ![dst] = f[src]]]

\* os.symlink(src, dst): src is the string stored in the link.
os_symlink(f, src, dst) ==
    IF lexists(f, dst) THEN [exc |-> "FileExistsError", fs |-> f]
    ELSE IF fault.kind = "nolink" /\ fault.path = dst THEN [exc |-> "OSError", fs |-> f]
    ELSE [exc |-> "none", fs |-> [f EXCEPT ![dst] = SymlinkTo(src)]]

\* callback(path): what the call raises ("none": it returns, or there is no
\* callback).
callback_exc(cb) ==
    CASE cb = "raises_OSError" -> "OSError"
      [] cb = "raises_other" -> "RuntimeError"
      [] OTHER -> "none"

\* "if callback: callback(path)": the calls made so far.
callback_called(cb, calls, path) == IF cb = "None" THEN calls ELSE Append(calls, path)

----------------------------------------------------------------------------
(* cleaners/duplicate_cleaner.py: survivor selection.                      *)

\* Mutant of sort_rank: sorted(...)[::-1], an ascending sort reversed, which
\* reverses the order of equal keys.
sort_rank_reversed(k, i) ==
    1 + Cardinality({j \in DOMAIN k : k[j] > k[i] \/ (k[j] = k[i] /\ j > i)})

\* Positions of files in descending key order, equal keys in their original
\* order: sorted(..., reverse=True) is stable.
sort_rank(k, i) ==
    1 + Cardinality({j \in DOMAIN k : k[j] > k[i] \/ (k[j] = k[i] /\ j < i)})

\* sorted(files, key=lambda x: os.path.getmtime(x["path"]), reverse=True)
\* in directory table f.
sorted_in(f, files) ==
    LET ks == [i \in 1..Len(files) |-> getmtime_in(f, files[i].path)]
        bad == {i \in 1..Len(files) : ks[i].exc # "none"}
    IN  IF bad # {}
        THEN Raise(ks[CHOOSE i \in bad : \A j \in bad : i <= j].exc)
        ELSE LET k == [i \in 1..Len(files) |-> ks[i].val]
             IN  Return([r \in 1..Len(files) |->
                           files[CHOOSE i \in 1..Len(files) : sort_rank(k, i) = r]])

sorted_by_mtime(files) == sorted_in(fs, files)

\* Mutant of list_after_sorted: files.sort(...), which sorts in place.
list_sorted_in_place(files, files_sorted) == files_sorted

\* The caller's list after sorted(files, ...): sorted() builds a new list and
\* leaves its argument as it was.
list_after_sorted(files, files_sorted) == files

\* Mutant of files_to_process: the two slices are exchanged, the survivor is
\* processed and another member is left.
files_to_process_swapped(files_sorted, keep) ==
    IF files_sorted = <<>> THEN <<>>
    ELSE IF keep THEN SubSeq(files_sorted, 1, Len(files_sorted) - 1)
    ELSE Tail(files_sorted)

\* Mutant of files_to_process: the slice is forgotten, the survivor is
\* processed like the others.
files_to_process_all(files_sorted, keep) == files_sorted

\* files_sorted[1:] if keep_newest else files_sorted[:-1]
files_to_process(files_sorted, keep) ==
    IF files_sorted = <<>> THEN <<>>
    ELSE IF keep THEN Tail(files_sorted)
    ELSE SubSeq(files_sorted, 1, Len(files_sorted) - 1)

\* files_sorted[0]["path"] if keep_newest else files_sorted[-1]["path"]
source_of(files_sorted, keep) ==
    IF keep THEN files_sorted[1].path ELSE files_sorted[Len(files_sorted)].path

----------------------------------------------------------------------------
(* cleaners/duplicate_cleaner.py: one iteration of the inner for loop, as  *)
(* [fs, result, calls, ops, exc]; exc is the exception that leaves the     *)
(* function.                                                               *)

add_success(res, size, rec) ==
    [total_size_bytes |-> res.total_size_bytes + size,
     total_count |-> res.total_count + 1,
     details |-> Append(res.details, rec)]

\* Mutant of add_failure: a failed member is counted too.
add_failure_counted(res, rec) ==
    [res EXCEPT !.total_count = @ + 1, !.details = Append(@, rec)]

add_failure(res, rec) == [res EXCEPT !.details = Append(@, rec)]

Op(name, path, exc) == [op |-> name, path |-> path, exc |-> exc]

\* The except branch of clean_duplicate_files: os.remove, then as above.
remove_fallback(f, res, calls, ops, info, cb) ==
    LET path == info.path
        r == os_remove(f, path)
        ops1 == Append(ops, Op("os.remove", path, r.exc))
        ok == [path |-> path, size_bytes |-> info.size_bytes, success |-> TRUE]
        failed(e) == [path |-> path, size_bytes |-> info.size_bytes,
                      success |-> FALSE, error |-> e]
    IN  IF r.exc # "none"
        THEN [fs |-> f, result |-> add_failure(res, failed(r.exc)),
              calls |-> calls, ops |-> ops1, exc |-> "none"]
        ELSE LET res1 == add_success(res, info.size_bytes, ok)
                 calls1 == callback_called(cb, calls, path)
                 c == callback_exc(cb)
             IN  IF c = "none"
                 THEN [fs |-> r.fs, result |-> res1, calls |-> calls1,
                       ops |-> ops1, exc |-> "none"]
                 ELSE IF IsOSError(c)
                 THEN [fs |-> r.fs, result |-> add_failure(res1, failed(c)),
                       calls |-> calls1, ops |-> ops1, exc |-> "none"]
                 ELSE [fs |-> r.fs, result |-> res1, calls |-> calls1,
                       ops |-> ops1, exc |-> c]

\* The body of "for file_info in files_to_remove" of clean_duplicate_files.
remove_member(f, res, calls, ops, info, cb) ==
    LET path == info.path
        t == send2trash(f, path)
        ops1 == Append(ops, Op("send2trash", path, t.exc))
        ok == [path |-> path, size_bytes |-> info.size_bytes, success |-> TRUE]
    IN  IF t.exc # "none"
        THEN remove_fallback(f, res, calls, ops1, info, cb)
        ELSE LET res1 == add_success(res, info.size_bytes, ok)
                 calls1 == callback_called(cb, calls, path)
             IN  IF callback_exc(cb) = "none"
                 THEN [fs |-> t.fs, result |-> res1, calls |-> calls1,
                       ops |-> ops1, exc |-> "none"]
                 ELSE remove_fallback(t.fs, res1, calls1, ops1, info, cb)

\* The body of "for file_info in files_to_link" of
\* replace_duplicates_with_hardlinks (symbolic = FALSE) and
\* replace_duplicates_with_symlinks (symbolic = TRUE).
link_member(f, res, calls, ops, info, cb, source_file, symbolic) ==
    LET target_file == info.path
        r == os_remove(f, target_file)
        ops1 == Append(ops, Op("os.remove", target_file, r.exc))
        l == IF symbolic THEN os_symlink(r.fs, abspath(source_file), target_file)
                         ELSE os_link(r.fs, source_file, target_file)
        ops2 == Append(ops1, Op(IF symbolic THEN "os.symlink" ELSE "os.link",
                                target_file, l.exc))
        ok == [source |-> source_file, target |-> target_file,
               size_bytes |-> info.size_bytes, success |-> TRUE]
        failed(e) == [source |-> source_file, target |-> target_file,
                      size_bytes |-> info.size_bytes, success |-> FALSE, error |-> e]
    IN  IF r.exc # "none"
        THEN [fs |-> f, result |-> add_failure(res, failed(r.exc)),
              calls |-> calls, ops |-> ops1, exc |-> "none"]
        ELSE IF l.exc # "none"
        THEN [fs |-> r.fs, result |-> add_failure(res, failed(l.exc)),
              calls |-> calls, ops |-> ops2, exc |-> "none"]
        ELSE LET res1 == add_success(res, info.size_bytes, ok)
                 calls1 == callback_called(cb, calls, target_file)
                 c == callback_exc(cb)
             IN  IF c = "none"
                 THEN [fs |-> l.fs, result |-> res1, calls |-> calls1,
                       ops |-> ops2, exc |-> "none"]
                 ELSE IF IsOSError(c)
                 THEN [fs |-> l.fs, result |-> add_failure(res1, failed(c)),
                       calls |-> calls1, ops |-> ops2, exc |-> "none"]
                 ELSE [fs |-> l.fs, result |-> res1, calls |-> calls1,
                       ops |-> ops2, exc |-> c]

process_member(f, res, calls, ops, info, a, source_file) ==
    IF a.strategy = "delete"
    THEN remove_member(f, res, calls, ops, info, a.callback)
    ELSE link_member(f, res, calls, ops, info, a.callback, source_file,
                     a.strategy = "symlink")

\* The inner for loop from member mi on, as [fs, result, exc].
RECURSIVE member_loop(_, _, _, _, _, _)
member_loop(f, res, todo, mi, a, source_file) ==
    IF mi > Len(todo) THEN [fs |-> f, result |-> res, exc |-> "none"]
    ELSE LET r == process_member(f, res, <<>>, <<>>, todo[mi], a, source_file)
         IN  IF r.exc # "none"
             THEN [fs |-> r.fs, result |-> r.result, exc |-> r.exc]
             ELSE member_loop(r.fs, r.result, todo, mi + 1, a, source_file)

\* "for hash_val, files in duplicates.items()" from group gi on.
RECURSIVE group_loop(_, _, _, _)
group_loop(f, res, gi, a) ==
    IF gi > Len(a.duplicates) THEN [fs |-> f, result |-> res, exc |-> "none"]
    ELSE LET s == sorted_in(f, a.duplicates[gi].files)
         IN  IF s.exc # "none" THEN [fs |-> f, result |-> res, exc |-> s.exc]
             ELSE LET m == member_loop(f, res, files_to_process(s.val, a.keep_newest),
                                       1, a, source_of(s.val, a.keep_newest))
                  IN  IF m.exc # "none" THEN m
                      ELSE group_loop(m.fs, m.result, gi + 1, a)

----------------------------------------------------------------------------
(* The state machine.                                                      *)

NoRun == [exc |-> "none", buckets |-> <<>>, val |-> <<>>, hashed |-> <<>>]
\* No content is <<"none">>: get_file_hash is the real one.
NoCollision == <<(<<"none">>), (<<"none">>)>>
NoFault == [kind |-> "none", path |-> 0]
NoArgs == [strategy |-> "none", duplicates |-> <<>>, keep_newest |-> TRUE,
           callback |-> "None"]
NoLoop == [gi |-> 0, files_sorted |-> <<>>, source_file |-> 0, todo |-> <<>>, mi |-> 0]
NoResult == [total_size_bytes |-> 0, total_count |-> 0, details |-> <<>>]
NoTrace == [calls |-> <<>>, ops |-> <<>>, exc |-> "none"]

\* A whole call of the function a.strategy names on directory table f: the
\* directory it leaves, the result dictionary, and the exception raised.
consolidate(f, a) == group_loop(f, NoResult, 1, a)

Strategies == {"delete", "hardlink", "symlink"}
Callbacks == {"None", "returns", "raises_OSError", "raises_other"}
\* Mutant of ListingOrder: the walk comes to the first entry a second time.
ListingRevisits == [i \in 1..(NumPaths + 1) |-> IF i <= NumPaths THEN i ELSE 1]

\* os.walk lists the entries in the order of their numbers.
ListingOrder == [i \in Paths |-> i]

\* Paths are numbered so that contents do not decrease, "x" before "y" (every
\* walk order and every assignment of modification times is enumerated, so
\* this loses no directory).
ContentMaps ==
    {c \in [Paths -> Contents] :
        \A p, q \in Paths :
            p < q => /\ Len(c[p]) <= Len(c[q])
                     /\ (Len(c[p]) = Len(c[q]) /\ c[p] # c[q])
                           => c[p] = [i \in 1..Len(c[p]) |-> "x"]}

IdleClean ==
    /\ pc = "idle"
    /\ args = NoArgs
    /\ loop = NoLoop
    /\ result = NoResult
    /\ trace = NoTrace

NoScan ==
    /\ runs = 0
    /\ last = NoRun
    /\ prev = GroupSet(NoRun)

\* A directory for the scans: at most one entry is a symbolic link or
\* inaccessible.
InitFiles ==
    /\ \E c \in ContentMaps : inode = [p \in Paths |-> [content |-> c[p], mtime |-> 1]]
    /\ \E special \in Paths :
         \/ /\ fs = [p \in Paths |-> RegularFile(p)]
            /\ \E mode \in AccessModes :
                 acc = [p \in Paths |-> IF p = special THEN mode ELSE "ok"]
         \/ /\ fs = [p \in Paths |->
                       IF p = special THEN SymlinkTo(abspath((p % NumPaths) + 1))
                                      ELSE RegularFile(p)]
            /\ acc = [p \in Paths |-> "ok"]
    /\ fs0 = fs
    /\ min_size \in MinSizes
    /\ NoScan
    /\ fault = NoFault
    /\ IdleClean

Init ==
    /\ InitFiles
    /\ collide = NoCollision

\* get_file_hash patched so that two contents collide, on a directory of
\* readable regular files.
InitForced ==
    /\ InitFiles
    /\ \A p \in Paths : fs[p].kind = "file" /\ acc[p] = "ok"
    /\ \E c1, c2 \in Contents : c1 # c2 /\ collide = <<c1, c2>>

\* One call of find_duplicate_files_by_content(directory, min_size).
Scan(order) ==
    /\ pc = "idle"
    /\ runs < 2
    /\ runs' = runs + 1
    /\ last' = find_duplicate_files_by_content(order, min_size)
    /\ prev' = GroupSet(last)
    /\ UNCHANGED <<fs, inode, acc, fs0, collide, min_size, cleanvars>>

\* The first call lists the entries in the order of their numbers, the second
\* in any order.
Next == \E order \in WalkOrders : (runs = 0 => order = ListingOrder) /\ Scan(order)

Spec == Init /\ [][Next]_vars

SpecForced == InitForced /\ [][Next]_vars

----------------------------------------------------------------------------
(* Consolidation of the groups a scan returned.                            *)

\* A directory of readable regular files with any modification times, the
\* last entry possibly a symbolic link to the first (the inode of its number
\* is then no file: it gets the values of the entry before), and at most one
\* thing the environment refuses: the trash, the removal of one path, or the
\* creation of a link at one path.
InitClean ==
    /\ \E c \in ContentMaps : \E m \in [Paths -> Mtimes] :
         inode = [p \in Paths |-> [content |-> c[p], mtime |-> m[p]]]
    /\ \/ fs = [p \in Paths |-> RegularFile(p)]
       \/ /\ fs = [p \in Paths |-> IF p = NumPaths THEN SymlinkTo(abspath(1))
                                                  ELSE RegularFile(p)]
          /\ inode[NumPaths] = inode[NumPaths - 1]
    /\ acc = [p \in Paths |-> "ok"]
    /\ fs0 = fs
    /\ min_size \in 0..MaxLen
    /\ collide = NoCollision
    /\ NoScan
    /\ \/ fault = NoFault
       \/ fault = [kind |-> "notrash", path |-> 0]
       \/ \E p \in Paths : \E k \in {"noremove", "nolink"} : fault = [kind |-> k, path |-> p]
    /\ IdleClean

\* A member of a group disappears between detection and consolidation.
ExternalRemove(p) ==
    /\ pc = "idle"
    /\ runs = 1
    /\ fault = NoFault
    /\ \E i \in 1..Len(last.val) : \E j \in 1..Len(last.val[i].files) :
         last.val[i].files[j].path = p
    /\ fs' = [fs EXCEPT ![p] = Absent]
    /\ fault' = [kind |-> "vanished", path |-> p]
    /\ UNCHANGED <<inode, acc, fs0, scanvars, pc, args, loop, result, trace>>

\* clean_duplicate_files / replace_duplicates_with_hardlinks /
\* replace_duplicates_with_symlinks called with the groups of the scan: the
\* result dictionary is created.
Start(strategy, keep, cb) ==
    /\ pc = "idle"
    /\ runs = 1
    /\ last.exc = "none"
    /\ pc' = "group"
    /\ args' = [strategy |-> strategy, duplicates |-> last.val,
                keep_newest |-> keep, callback |-> cb]
    /\ loop' = [NoLoop EXCEPT !.gi = 1]
    /\ result' = NoResult
    /\ trace' = NoTrace
    /\ fs0' = fs
    /\ UNCHANGED <<fs, inode, acc, scanvars, fault>>

\* The head of "for hash_val, files in duplicates.items()": the group is
\* sorted and its survivor chosen; getmtime may raise out of the function.
SortGroup ==
    /\ pc = "group"
    /\ loop.gi <= Len(args.duplicates)
    /\ LET s == sorted_by_mtime(args.duplicates[loop.gi].files)
       IN  IF s.exc # "none"
           THEN /\ pc' = "raised"
                /\ trace' = [trace EXCEPT !.exc = s.exc]
                /\ UNCHANGED <<loop, args>>
           ELSE /\ pc' = "member"
                /\ args' = [args EXCEPT !.duplicates[loop.gi].files =
                                           list_after_sorted(@, s.val)]
                /\ loop' = [loop EXCEPT
                              !.files_sorted = s.val,
                              !.source_file = source_of(s.val, args.keep_newest),
                              !.todo = files_to_process(s.val, args.keep_newest),
                              !.mi = 1]
                /\ UNCHANGED trace
    /\ UNCHANGED <<fs, inode, acc, fs0, scanvars, fault, result>>

\* One iteration of the inner for loop; after the last member the outer loop
\* goes on to the next group.
ProcessMember ==
    /\ pc = "member"
    /\ IF loop.mi > Len(loop.todo)
       THEN /\ pc' = "group"
            /\ loop' = [loop EXCEPT !.gi = @ + 1]
            /\ UNCHANGED <<fs, result, trace>>
       ELSE LET r == process_member(fs, result, trace.calls, trace.ops,
                                    loop.todo[loop.mi], args, loop.source_file)
            IN  /\ fs' = r.fs
                /\ result' = r.result
                /\ trace' = [calls |-> r.calls, ops |-> r.ops, exc |-> r.exc]
                /\ pc' = IF r.exc = "none" THEN "member" ELSE "raised"
                /\ loop' = [loop EXCEPT !.mi = @ + 1]
    /\ UNCHANGED <<inode, acc, fs0, scanvars, fault, args>>

\* "return result"
Finish ==
    /\ pc = "group"
    /\ loop.gi > Len(args.duplicates)
    /\ pc' = "returned"
    /\ UNCHANGED <<fs, inode, acc, fs0, scanvars, fault, args, loop, result, trace>>

\* os.walk of the directory as it is now: the entries that exist.
listdir(f) == SelectSeq(ListingOrder, LAMBDA p : f[p].kind # "absent")

\* find_duplicate_files_by_content called again after a consolidation.
Rescan ==
    /\ pc = "returned"
    /\ runs = 1
    /\ runs' = 2
    /\ last' = find_duplicate_files_by_content(listdir(fs), min_size)
    /\ prev' = GroupSet(last)
    /\ UNCHANGED <<fs, inode, acc, fs0, collide, min_size, cleanvars>>

NextClean ==
    \/ (runs = 0 /\ Scan(ListingOrder))
    \/ Rescan
    \/ \E p \in Paths : ExternalRemove(p)
    \/ \E strategy \in Strategies, keep \in BOOLEAN, cb \in Callbacks :
         Start(strategy, keep, cb)
    \/ SortGroup
    \/ ProcessMember
    \/ Finish

SpecClean == InitClean /\ [][NextClean]_vars

----------------------------------------------------------------------------
(* cleaners/disk_cleaner.py: clean_large_files.  The state of a call is    *)
(* [fs, result, calls, ops, exc].                                          *)

MaxSelected == 2

\* os.path.getsize and get_file_size in directory table f.
getsize_in(f, p) ==
    LET st == stat_in(f, p)
    IN  IF st.exc # "none" THEN st ELSE Return(Len(inode[st.val].content))

get_file_size_in(f, p) ==
    LET r == getsize_in(f, p)
    IN  IF r.exc \in {"FileNotFoundError", "PermissionError"} THEN Return(0) ELSE r

\* os.path.isfile follows symbolic links and is False on any error.
isfile(f, p) == stat_in(f, p).exc = "none"

\* The file_paths argument: None, or a list of paths.
NoFilePaths == [given |-> FALSE, paths |-> <<>>]
FilePathLists ==
    {[given |-> TRUE, paths |-> l] :
        l \in UNION {[1..n -> Paths] : n \in 0..MaxSelected}}
\* "if file_paths:": None and the empty list are both false.
truthy(file_paths) == file_paths.given /\ Len(file_paths.paths) > 0

NoLargeResult == [total_size_bytes |-> 0, total_count |-> 0, success |-> TRUE,
                  error |-> "None"]

\* result["total_size_bytes"] += size; result["total_count"] += 1
counted(res, size) ==
    [res EXCEPT !.total_size_bytes = @ + size, !.total_count = @ + 1]

\* "except Exception:" of the removal: os.remove, the totals, the callback;
\* an OSError is swallowed by "continue".
remove_large_fallback(st, p, size, cb) ==
    LET r == os_remove(st.fs, p)
        ops1 == Append(st.ops, Op("os.remove", p, r.exc))
        c == callback_exc(cb)
    IN  IF r.exc # "none" THEN [st EXCEPT !.ops = ops1]
        ELSE [fs |-> r.fs, result |-> counted(st.result, size),
              calls |-> callback_called(cb, st.calls, p), ops |-> ops1,
              exc |-> IF IsOSError(c) THEN "none" ELSE c]

\* "try: send2trash(file_path) ... except Exception: ..."
remove_large(st, p, size, cb) ==
    LET t == send2trash(st.fs, p)
        st1 == [st EXCEPT !.ops = Append(@, Op("send2trash", p, t.exc))]
    IN  IF t.exc # "none" THEN remove_large_fallback(st1, p, size, cb)
        ELSE LET st2 == [st1 EXCEPT !.fs = t.fs,
                                    !.result = counted(@, size),
                                    !.calls = callback_called(cb, @, p)]
             IN  IF callback_exc(cb) = "none" THEN st2
                 ELSE remove_large_fallback(st2, p, size, cb)

\* One iteration of "for file_path in file_paths".
listed_file(st, p, cb) ==
    IF isfile(st.fs, p) /\ st.fs[p].kind # "symlink"
    THEN LET size == get_file_size_in(st.fs, p)
         IN  IF size.exc # "none" THEN [st EXCEPT !.exc = size.exc]
             ELSE remove_large(st, p, size.val, cb)
    ELSE st

\* One iteration of the os.walk loop.
walked_file(st, p, min_size_bytes, cb) ==
    IF st.fs[p].kind = "symlink" THEN st
    ELSE LET size == get_file_size_in(st.fs, p)
         IN  IF size.exc # "none" THEN [st EXCEPT !.exc = size.exc]
             ELSE IF size.val >= min_size_bytes THEN remove_large(st, p, size.val, cb)
             ELSE st

\* Either loop from position i on; "except (PermissionError,
\* FileNotFoundError): continue" around each iteration.
RECURSIVE large_loop(_, _, _, _, _, _)
large_loop(st, paths, i, listed, min_size_bytes, cb) ==
    IF i > Len(paths) THEN st
    ELSE LET r == IF listed THEN listed_file(st, paths[i], cb)
                            ELSE walked_file(st, paths[i], min_size_bytes, cb)
         IN  IF r.exc \in {"none", "PermissionError", "FileNotFoundError"}
             THEN large_loop([r EXCEPT !.exc = "none"], paths, i + 1, listed,
                             min_size_bytes, cb)
             ELSE r

\* clean_large_files(directory, min_size_bytes, file_paths, callback);
\* directory is what os.walk lists.
clean_large_files(f, directory, min_size_bytes, file_paths, cb) ==
    LET st == [fs |-> f, result |-> NoLargeResult, calls |-> <<>>, ops |-> <<>>,
               exc |-> "none"]
        r == IF truthy(file_paths)
             THEN large_loop(st, file_paths.paths, 1, TRUE, min_size_bytes, cb)
             ELSE large_loop(st, directory, 1, FALSE, min_size_bytes, cb)
    IN  IF IsOSError(r.exc)
        THEN [r EXCEPT !.result.success = FALSE, !.result.error = r.exc, !.exc = "none"]
        ELSE r

\* A directory of readable files, the last entry possibly a symbolic link to
\* the first, and at most one thing the environment refuses.
InitLarge ==
    /\ \E c \in ContentMaps : inode = [p \in Paths |-> [content |-> c[p], mtime |-> 1]]
    /\ \/ fs = [p \in Paths |-> RegularFile(p)]
       \/ /\ fs = [p \in Paths |-> IF p = NumPaths THEN SymlinkTo(abspath(1))
                                                  ELSE RegularFile(p)]
          /\ inode[NumPaths] = inode[NumPaths - 1]
    /\ acc = [p \in Paths |-> "ok"]
    /\ fs0 = fs
    /\ min_size = 0
    /\ collide = NoCollision
    /\ NoScan
    /\ \/ fault = NoFault
       \/ fault = [kind |-> "notrash", path |-> 0]
       \/ \E p \in Paths : fault = [kind |-> "noremove", path |-> p]
    /\ IdleClean

\* One call of clean_large_files.
CleanLarge(file_paths, min_size_bytes, cb) ==
    /\ pc = "idle"
    /\ \E r \in {clean_large_files(fs, listdir(fs), min_size_bytes, file_paths, cb)} :
           /\ fs' = r.fs
           /\ result' = r.result
           /\ trace' = [calls |-> r.calls, ops |-> r.ops, exc |-> r.exc]
           /\ pc' = IF r.exc = "none" THEN "returned" ELSE "raised"
    /\ args' = [strategy |-> "large", file_paths |-> file_paths,
                min_size_bytes |-> min_size_bytes, callback |-> cb]
    /\ UNCHANGED <<inode, acc, fs0, scanvars, fault, loop>>

NextLarge ==
    \E file_paths \in {NoFilePaths} \cup FilePathLists, min_size_bytes \in MinSizes,
       cb \in Callbacks :
        CleanLarge(file_paths, min_size_bytes, cb)

SpecLarge == InitLarge /\ [][NextLarge]_vars

----------------------------------------------------------------------------
(* utils/size_utils.py: parse_size.  A string is a sequence of characters. *)

MaxSizeStr == 3
SizeChars == {"1", ".", " ", "k", "B", "X"}
SizeStrings == UNION {[1..n -> SizeChars] : n \in 0..MaxSizeStr}

\* str.strip(): leading and trailing white space removed.
RECURSIVE strip(_)
strip(str) ==
    IF str = <<>> THEN str
    ELSE IF Head(str) = " " THEN strip(Tail(str))
    ELSE IF str[Len(str)] = " " THEN strip(SubSeq(str, 1, Len(str) - 1))
    ELSE str

\* str.upper()
upper(str) == [i \in 1..Len(str) |-> IF str[i] = "k" THEN "K" ELSE str[i]]

\* [\d.] , \s and [A-Z] of the regular expression.
IsDigitOrDot(c) == c \in {"0", "1", "2", "3", "4", "5", "6", "7", "8", "9", "."}
IsSpace(c) == c = " "
IsUpperLetter(c) == c \in {"B", "G", "K", "M", "P", "T", "X"}

\* re.match(r"^([\d.]+)\s*([A-Z]+)$", size_str): the groups (value, unit), or
\* no match.
size_match(str) ==
    LET n == Len(str)
        ends == {ij \in (1..n) \X (1..n) :
                    /\ ij[1] <= ij[2] /\ ij[2] < n
                    /\ \A k \in 1..ij[1] : IsDigitOrDot(str[k])
                    /\ \A k \in (ij[1] + 1)..ij[2] : IsSpace(str[k])
                    /\ \A k \in (ij[2] + 1)..n : IsUpperLetter(str[k])}
    IN  IF ends = {} THEN [matched |-> FALSE, value |-> <<>>, unit |-> <<>>]
        ELSE LET ij == CHOOSE e \in ends : TRUE
             IN  [matched |-> TRUE, value |-> SubSeq(str, 1, ij[1]),
                  unit |-> SubSeq(str, ij[2] + 1, n)]

\* The units dictionary: (unit, multiplier).  TB and PB, which no string over
\* SizeChars names, are beyond the integers of the checker.
units ==
    {<<(<<"B">>), 1>>, <<(<<"K", "B">>), 1024>>, <<(<<"M", "B">>), 1024 * 1024>>,
     <<(<<"G", "B">>), 1024 * 1024 * 1024>>}

DigitValue(c) ==
    CASE c = "0" -> 0 [] c = "1" -> 1 [] c = "2" -> 2 [] c = "3" -> 3 [] c = "4" -> 4
      [] c = "5" -> 5 [] c = "6" -> 6 [] c = "7" -> 7 [] c = "8" -> 8 [] c = "9" -> 9

RECURSIVE Power10(_)
Power10(n) == IF n = 0 THEN 1 ELSE 10 * Power10(n - 1)

\* The digits of value read as a whole number, the dot left out.
RECURSIVE Mantissa(_)
Mantissa(value) ==
    IF value = <<>> THEN 0
    ELSE IF value[Len(value)] = "." THEN Mantissa(SubSeq(value, 1, Len(value) - 1))
    ELSE 10 * Mantissa(SubSeq(value, 1, Len(value) - 1)) + DigitValue(value[Len(value)])

\* int(float(value) * multiplier): float() raises ValueError for more than
\* one dot and for no digit; int() truncates.
to_bytes(value, multiplier) ==
    LET dots == {k \in 1..Len(value) : value[k] = "."}
        decimals == IF dots = {} THEN 0 ELSE Len(value) - (CHOOSE k \in dots : TRUE)
    IN  IF Cardinality(dots) > 1 \/ Cardinality(dots) = Len(value)
        THEN Raise("ValueError")
        ELSE Return((Mantissa(value) * multiplier) \div Power10(decimals))

parse_size(size_str) ==
    LET str == upper(strip(size_str))
        m == size_match(str)
    IN  IF ~m.matched THEN Raise("ValueError")
        ELSE IF ~\E u \in units : u[1] = m.unit THEN Raise("ValueError")
        ELSE to_bytes(m.value, (CHOOSE u \in units : u[1] = m.unit)[2])

----------------------------------------------------------------------------
(* analyzers/disk_analyzer.py: find_large_files.                           *)

\* The os.walk loop from position i on: [exc, val].
RECURSIVE large_walk(_, _, _, _, _)
large_walk(f, directory, i, min_size_bytes, large_files) ==
    IF i > Len(directory) THEN Return(large_files)
    ELSE LET p == directory[i]
             size == get_file_size_in(f, p)
         IN  IF f[p].kind = "symlink"
             THEN large_walk(f, directory, i + 1, min_size_bytes, large_files)
             ELSE IF size.exc \in {"PermissionError", "FileNotFoundError"}
             THEN large_walk(f, directory, i + 1, min_size_bytes, large_files)
             ELSE IF size.exc # "none" THEN size
             ELSE large_walk(f, directory, i + 1, min_size_bytes,
                             IF size.val >= min_size_bytes
                             THEN Append(large_files, [path |-> p, size_bytes |-> size.val])
                             ELSE large_files)

\* find_large_files(directory, min_size_bytes): largest first, equal sizes in
\* the order found.
find_large_files(f, directory, min_size_bytes) ==
    LET r == large_walk(f, directory, 1, min_size_bytes, <<>>)
    IN  IF r.exc # "none" THEN r
        ELSE LET k == [i \in 1..Len(r.val) |-> r.val[i].size_bytes]
             IN  Return([n \in 1..Len(r.val) |->
                           r.val[CHOOSE i \in 1..Len(r.val) : sort_rank(k, i) = n]])

----------------------------------------------------------------------------
(* main.py: the menu loop.  trace.calls is the log of the current menu     *)
(* action: prompts answered, messages printed, functions called; result is *)
(* how the process ended.                                                  *)

MaxActions == 2
\* The default min_size_bytes of clean_large_files.
LargeDefault == 100 * 1024 * 1024

\* python -m / script execution, or the installed console script.
Modes == {"script", "entry_point"}
Running == [status |-> -1, report |-> "none", caught |-> FALSE]
NoCliArgs(mode) ==
    [mode |-> mode, action |-> "none", choice |-> -1, dir_exists |-> TRUE,
     size_entered |-> FALSE, size_str |-> <<>>, min_size_bytes |-> 0,
     files_to_clean |-> <<>>]
NoCliLoop == [duplicates |-> <<>>, large_files |-> <<>>]
MenuActions ==
    <<"show_disk_usage", "analyze_directory", "analyze_temp_files",
      "analyze_duplicates", "clean_temp_files", "clean_large_files_menu",
      "clean_duplicates", "exit">>
\* Where the program waits for the user.
Prompts ==
    {"menu", "dir_prompt", "size_prompt", "select", "temp_menu", "temp_confirm",
     "large_confirm", "method_menu", "dup_confirm", "pause"}

\* What the user types at "Enter the numbers of files to clean".
Selections ==
    {[kind |-> k, numbers |-> <<>>] : k \in {"cancel", "all", "invalid"}}
      \cup {[kind |-> "numbers", numbers |-> l] :
              l \in UNION {[1..n -> 0..(NumPaths + 1)] : n \in 1..MaxSelected}}

\* Mutant of path_rejected: the check of the entered path is left out.
path_rejected_never(exists) == FALSE

\* "if not os.path.exists(directory):"
path_rejected(exists) == ~exists

\* Mutant of proceed: the answer to the confirmation is not looked at.
proceed_anyway(answer) == TRUE

\* "if not confirm_action(...): ... return"
proceed(answer) == answer

\* How the process ends when exc leaves main().  Script execution has the
\* try/except around main(); the console script calls main() bare, and the
\* interpreter ends an uncaught exception with a traceback and status 1, an
\* uncaught KeyboardInterrupt with status 1 or 130 by platform.
exits(mode, exc) ==
    IF mode = "script"
    THEN IF exc = "KeyboardInterrupt"
         THEN {[status |-> 0, report |-> "print_info", caught |-> TRUE]}
         ELSE {[status |-> 1, report |-> "print_error", caught |-> TRUE]}
    ELSE IF exc = "KeyboardInterrupt"
         THEN {[status |-> st, report |-> "traceback", caught |-> FALSE] : st \in {1, 130}}
         ELSE {[status |-> 1, report |-> "traceback", caught |-> FALSE]}

\* The menu action goes on to position pos after events.
Continue(pos, events, a, l, f) ==
    /\ pc' = pos
    /\ trace' = [trace EXCEPT !.calls = @ \o events]
    /\ args' = a
    /\ loop' = l
    /\ fs' = f
    /\ UNCHANGED result

\* exc leaves the menu action and main().
Escape(exc, events, a, f) ==
    /\ pc' = "exited"
    /\ trace' = [trace EXCEPT !.calls = @ \o events, !.exc = exc]
    /\ args' = a
    /\ fs' = f
    /\ result' \in exits(args.mode, exc)
    /\ UNCHANGED loop

\* A directory of regular files, at most one of which cannot be read (an I/O
\* error of stat); the program is started in either way.  The menu actions
\* scan for duplicates with the default min_size, which excludes empty files.
InitCLI ==
    /\ \E c \in ContentMaps : inode = [p \in Paths |-> [content |-> c[p], mtime |-> 1]]
    /\ fs = [p \in Paths |-> RegularFile(p)]
    /\ \/ acc = [p \in Paths |-> "ok"]
       \/ \E special \in Paths : acc = [p \in Paths |-> IF p = special THEN "staterr" ELSE "ok"]
    /\ fs0 = fs
    /\ min_size = 1
    /\ collide = NoCollision
    /\ NoScan
    /\ fault = NoFault
    /\ pc = "menu"
    /\ \E mode \in Modes : args = NoCliArgs(mode)
    /\ loop = NoCliLoop
    /\ result = Running
    /\ trace = NoTrace

\* main(): display_menu and the dispatch on its choice.
MainMenu(choice) ==
    /\ pc = "menu"
    /\ runs < MaxActions
    /\ runs' = runs + 1
    /\ fs0' = fs
    /\ args' = [NoCliArgs(args.mode) EXCEPT !.action = MenuActions[choice + 1]]
    /\ loop' = NoCliLoop
    /\ IF choice = 7
       THEN /\ pc' = "exited"
            /\ trace' = [NoTrace EXCEPT !.calls = <<"print_info">>, !.exc = "SystemExit"]
            /\ result' = [status |-> 0, report |-> "print_info", caught |-> FALSE]
       ELSE /\ pc' = CASE choice \in {0, 2} -> "pause"
                       [] choice = 4 -> "temp_menu"
                       [] OTHER -> "dir_prompt"
            /\ trace' = [NoTrace EXCEPT !.calls = IF choice \in {0, 2} THEN <<"scan">>
                                                  ELSE <<>>]
            /\ UNCHANGED result
    /\ UNCHANGED <<fs, inode, acc, collide, min_size, last, prev, fault>>

\* "Enter directory path" of analyze_directory, analyze_duplicates,
\* clean_large_files_menu and clean_duplicates, up to their next prompt.
EnterDirectory(exists) ==
    /\ pc = "dir_prompt"
    /\ LET a == [args EXCEPT !.dir_exists = exists]
       IN  IF path_rejected(exists)
           THEN Continue("pause", <<"print_error">>, a, loop, fs)
           ELSE CASE args.action = "analyze_directory" ->
                       Continue("pause", <<"scan">>, a, loop, fs)
                  [] args.action = "clean_large_files_menu" ->
                       Continue("size_prompt", <<>>, a, loop, fs)
                  [] OTHER ->
                       \E d \in {analyze_duplicate_files(listdir(fs), min_size)} :
                           IF d.exc # "none" THEN Escape(d.exc, <<"scan">>, a, fs)
                           ELSE IF args.action = "analyze_duplicates"
                           THEN Continue("pause", <<"scan">>, a, loop, fs)
                           ELSE IF d.val.total_duplicate_sets = 0
                           THEN Continue("pause", <<"scan", "print_info">>, a, loop, fs)
                           ELSE Continue("method_menu", <<"scan">>, a,
                                         [loop EXCEPT !.duplicates = d.val.duplicates], fs)
    /\ UNCHANGED <<inode, acc, fs0, scanvars, fault>>

\* "Enter minimum file size" of clean_large_files_menu, up to the list of
\* large files.
EnterSize(size_str) ==
    /\ pc = "size_prompt"
    /\ \E r \in {parse_size(size_str)} :
         LET a == [args EXCEPT !.size_entered = TRUE, !.size_str = size_str]
         IN  IF r.exc = "ValueError"
             THEN Continue("pause", <<"print_error">>, a, loop, fs)
             ELSE \E lf \in {find_large_files(fs, listdir(fs), r.val)} :
                    IF lf.exc # "none"
                    THEN Escape(lf.exc, <<"scan">>, [a EXCEPT !.min_size_bytes = r.val], fs)
                    ELSE IF lf.val = <<>>
                    THEN Continue("pause", <<"scan", "print_info">>,
                                  [a EXCEPT !.min_size_bytes = r.val], loop, fs)
                    ELSE Continue("select", <<"scan">>, [a EXCEPT !.min_size_bytes = r.val],
                                  [loop EXCEPT !.large_files = lf.val], fs)
    /\ UNCHANGED <<inode, acc, fs0, scanvars, fault>>

\* The numbers typed at the selection, as indices kept by the range check.
selected(large_files, numbers) ==
    LET kept == SelectSeq(numbers, LAMBDA n : 1 <= n /\ n <= Len(large_files))
    IN  [i \in 1..Len(kept) |-> large_files[kept[i]].path]

\* "Enter the numbers of files to clean".
Select(selection) ==
    /\ pc = "select"
    /\ LET files_to_clean ==
               IF selection.kind = "all"
               THEN [i \in 1..Len(loop.large_files) |-> loop.large_files[i].path]
               ELSE selected(loop.large_files, selection.numbers)
       IN  CASE selection.kind = "cancel" ->
                  Continue("pause", <<"print_info">>, args, loop, fs)
             [] selection.kind = "invalid" ->
                  Continue("pause", <<"print_error">>, args, loop, fs)
             [] OTHER ->
                  IF files_to_clean = <<>>
                  THEN Continue("pause", <<"print_info">>, args, loop, fs)
                  ELSE Continue("large_confirm", <<>>,
                                [args EXCEPT !.files_to_clean = files_to_clean], loop, fs)
    /\ UNCHANGED <<inode, acc, fs0, scanvars, fault>>

\* clean_temp_files: "Select temporary files to clean".
TempMenu(choice) ==
    /\ pc = "temp_menu"
    /\ IF choice = 4
       THEN Continue("pause", <<>>, [args EXCEPT !.choice = choice], loop, fs)
       ELSE Continue("temp_confirm", <<>>, [args EXCEPT !.choice = choice], loop, fs)
    /\ UNCHANGED <<inode, acc, fs0, scanvars, fault>>

\* clean_duplicates: "Select how to handle duplicate files".
MethodMenu(choice) ==
    /\ pc = "method_menu"
    /\ IF choice = 4
       THEN Continue("pause", <<"print_info">>, [args EXCEPT !.choice = choice], loop, fs)
       ELSE Continue("dup_confirm", <<>>, [args EXCEPT !.choice = choice], loop, fs)
    /\ UNCHANGED <<inode, acc, fs0, scanvars, fault>>

\* The temp cleaners called for a choice of the temp menu.
temp_cleaners(choice) ==
    CASE choice = 0 -> <<"clean_system_temp_files">>
      [] choice = 1 -> <<"clean_browser_caches">>
      [] choice = 2 -> <<"clean_package_caches">>
      [] OTHER -> <<"clean_system_temp_files", "clean_browser_caches",
                    "clean_package_caches">>

\* The duplicate cleaner called for a choice of the method menu.
method(choice) ==
    CASE choice = 0 -> [fn |-> "clean_duplicate_files", strategy |-> "delete", keep_newest |-> TRUE]
      [] choice = 1 -> [fn |-> "clean_duplicate_files", strategy |-> "delete", keep_newest |-> FALSE]
      [] choice = 2 -> [fn |-> "replace_duplicates_with_hardlinks", strategy |-> "hardlink", keep_newest |-> TRUE]
      [] OTHER -> [fn |-> "replace_duplicates_with_symlinks", strategy |-> "symlink", keep_newest |-> TRUE]

\* confirm_action and the cleaning that follows it.
Confirm(answer) ==
    /\ pc \in {"temp_confirm", "large_confirm", "dup_confirm"}
    /\ LET asked == <<IF answer THEN "confirm_action=True" ELSE "confirm_action=False">>
           m == method(args.choice)
       IN  IF ~proceed(answer)
           THEN Continue("pause", asked \o <<"print_info">>, args, loop, fs)
           ELSE CASE pc = "temp_confirm" ->
                       Continue("pause", asked \o temp_cleaners(args.choice), args, loop, fs)
                  [] pc = "large_confirm" ->
                       \E l \in {clean_large_files(fs, listdir(fs), LargeDefault,
                                     [given |-> TRUE, paths |-> args.files_to_clean],
                                     "returns")} :
                           IF l.exc # "none"
                           THEN Escape(l.exc, asked \o <<"clean_large_files">>, args, l.fs)
                           ELSE Continue("pause", asked \o <<"clean_large_files">>, args,
                                         loop, l.fs)
                  [] OTHER ->
                       \E d \in {consolidate(fs, [strategy |-> m.strategy,
                                                  duplicates |-> loop.duplicates,
                                                  keep_newest |-> m.keep_newest,
                                                  callback |-> "returns"])} :
                           IF d.exc # "none"
                           THEN Escape(d.exc, asked \o <<m.fn>>, args, d.fs)
                           ELSE Continue("pause", asked \o <<m.fn>>, args, loop, d.fs)
    /\ UNCHANGED <<inode, acc, fs0, scanvars, fault>>

\* "Press Enter to continue...", back to the top of the while loop.
Pause ==
    /\ pc = "pause"
    /\ pc' = "menu"
    /\ UNCHANGED <<fs, inode, acc, fs0, scanvars, fault, args, loop, result, trace>>

\* What Ctrl-C raises at a prompt: input() and Confirm.ask raise
\* KeyboardInterrupt, click.prompt turns it into click.Abort, an Exception.
interrupted(pos) ==
    IF pos \in {"dir_prompt", "size_prompt"} THEN "Abort" ELSE "KeyboardInterrupt"

\* Ctrl-C while the program waits at a prompt.
Interrupt ==
    /\ pc \in Prompts
    /\ Escape(interrupted(pc), <<>>, args, fs)
    /\ UNCHANGED <<inode, acc, fs0, scanvars, fault>>

NextCLI ==
    \/ \E choice \in 0..7 : MainMenu(choice)
    \/ \E exists \in BOOLEAN : EnterDirectory(exists)
    \/ \E size_str \in SizeStrings : EnterSize(size_str)
    \/ \E selection \in Selections : Select(selection)
    \/ \E choice \in 0..4 : TempMenu(choice)
    \/ \E choice \in 0..4 : MethodMenu(choice)
    \/ \E answer \in BOOLEAN : Confirm(answer)
    \/ Pause
    \/ Interrupt

SpecCLI == InitCLI /\ [][NextCLI]_vars

----------------------------------------------------------------------------
(* Properties of detection.                                                *)

Scanned == runs >= 1
GroupPaths(g) == {g.files[j].path : j \in 1..Len(g.files)}
InBucket(p) == \E i \in 1..Len(last.buckets) : p \in Range(last.buckets[i].files)
InGroup(p) == \E i \in 1..Len(last.val) : p \in GroupPaths(last.val[i])
Hashed(p) == p \in Range(last.hashed)
\* The size of the regular file at p.
FileSize(p) == Len(inode[fs[p].ino].content)
\* A regular file of at least min_size bytes.
Eligible(p) == fs[p].kind = "file" /\ FileSize(p) >= min_size
ContentClass(p) == {q \in Paths : Eligible(q) /\ ContentOf(q) = ContentOf(p)}

\* C1: every returned group has at least 2 members, and all members of one
\* group have the same content hash and the same size_bytes.
C1_GroupsHomogeneous ==
    \A i \in 1..Len(last.val) :
        /\ Len(last.val[i].files) >= 2
        /\ \A a, b \in Range(last.val[i].files) :
             /\ a.size_bytes = b.size_bytes
             /\ get_file_hash(a.path) = get_file_hash(b.path)
             /\ get_file_hash(a.path).val = last.val[i].key

\* A group was returned, and a hashed file whose hash no other file has was
\* left out.
C1_Witness ==
    /\ runs = 2
    /\ Len(last.val) >= 1
    /\ \E p \in Paths : Hashed(p) /\ acc[p] = "ok" /\ ~InGroup(p)

\* C2: when every file is readable, the returned groups are exactly the
\* content-equality classes with at least 2 members among the regular files
\* of at least min_size bytes: two such files with identical content share a
\* group, two files of equal size and different content never do.
C2_GroupsAreContentClasses ==
    (Scanned /\ \A p \in Paths : acc[p] = "ok") =>
        /\ last.exc = "none"
        /\ {GroupPaths(last.val[i]) : i \in 1..Len(last.val)}
             = {ContentClass(p) : p \in {q \in Paths : Eligible(q)
                                          /\ Cardinality(ContentClass(q)) >= 2}}
        /\ \A p, q \in Paths :
             (p # q /\ Eligible(p) /\ Eligible(q) /\ ContentOf(p) = ContentOf(q))
                => \E i \in 1..Len(last.val) : {p, q} \subseteq GroupPaths(last.val[i])
        /\ \A p, q \in Paths :
             (Eligible(p) /\ Eligible(q) /\ FileSize(p) = FileSize(q)
                 /\ ContentOf(p) # ContentOf(q))
                => ~\E i \in 1..Len(last.val) : {p, q} \subseteq GroupPaths(last.val[i])

C2_Witness ==
    /\ runs = 2
    /\ \A p \in Paths : acc[p] = "ok"
    /\ Len(last.val) >= 1
    /\ \E p, q \in Paths :
         /\ Eligible(p) /\ Eligible(q) /\ FileSize(p) = FileSize(q)
         /\ ContentOf(p) # ContentOf(q)
         /\ InGroup(p)

\* C3: two files of different sizes are never members of the same group, even
\* when get_file_hash is forced to give them the same hash.
C3_NoMixedSizes ==
    \A i \in 1..Len(last.val) :
        \A a, b \in Range(last.val[i].files) :
            /\ a.size_bytes = b.size_bytes
            /\ FileSize(a.path) = FileSize(b.path)

C5_HashOnlySizeCollisions ==
    \A i \in 1..Len(last.hashed) :
        LET p == last.hashed[i]
        IN  /\ \A j \in 1..Len(last.hashed) : j # i => last.hashed[j] # p
            /\ ~islink(p)
            /\ get_file_size(p).val >= min_size
            /\ \E q \in Paths \ {p} :
                 ~islink(q) /\ get_file_size(q) = get_file_size(p)

C5_Witness ==
    /\ Scanned
    /\ Len(last.hashed) >= 2
    /\ \E p \in Paths : Eligible(p) /\ acc[p] = "ok" /\ ~Hashed(p)

\* C6: a failed stat or read on one file, whatever the error, only omits that
\* file: the call does not raise, and the groups are those of the directory
\* without the failing file.
C6_FailureOnlyOmitsFile ==
    Scanned =>
        \A p \in Paths :
            acc[p] # "ok" =>
                /\ last.exc = "none"
                /\ GroupSet(last)
                     = GroupSet(find_duplicate_files_by_content(
                                   SelectSeq(ListingOrder, LAMBDA q : q # p), min_size))

\* C7: two calls on an unchanged directory return the same set of groups
\* (same hashes, same member paths, whatever the order), and the calls leave
\* the directory as it was.
C7_ScanIdempotent ==
    /\ fs = fs0
    /\ runs = 2 => prev = GroupSet(last)

C7_Witness ==
    /\ runs = 2
    /\ Len(last.val) >= 1
    /\ last.val[1].files[1].path > last.val[1].files[2].path
    /\ prev.groups # {}

----------------------------------------------------------------------------
(* Properties of consolidation.                                            *)

Ended == pc \in {"returned", "raised"}
\* The member path a detail record is about.
RecPath(d) == IF "path" \in DOMAIN d THEN d.path ELSE d.target
Processed(p) == \E k \in 1..Len(result.details) : RecPath(result.details[k]) = p
\* Modification time of the file at p when the call began.
Mtime0(p) == inode[fs0[p].ino].mtime

\* C8: for every group with distinct modification times each of the three
\* functions leaves exactly one member unprocessed, the newest when
\* keep_newest and the oldest otherwise; all other members are processed.
C8_OneSurvivorPerGroup ==
    Ended =>
        \A i \in 1..Len(args.duplicates) :
            LET paths == GroupPaths(args.duplicates[i])
            IN  (/\ \A p \in paths : fs0[p].kind = "file"
                 /\ \A p, q \in paths : p # q => Mtime0(p) # Mtime0(q))
                  => \E s \in paths :
                        /\ {p \in paths : ~Processed(p)} = {s}
                        /\ \A q \in paths :
                             IF args.keep_newest THEN Mtime0(q) <= Mtime0(s)
                                                 ELSE Mtime0(q) >= Mtime0(s)

\* C9: under equal modification times the survivor is fixed by the members'
\* order in the group: the first of the newest members when keep_newest, the
\* last of the oldest members otherwise; every other member is to be processed.
C9_TieBreakByOrder ==
    (pc = "member" /\ loop.mi = 1) =>
        LET files == args.duplicates[loop.gi].files
            n == Len(files)
            mt(j) == getmtime(files[j].path).val
            newest == {j \in 1..n : \A k \in 1..n : mt(k) <= mt(j)}
            oldest == {j \in 1..n : \A k \in 1..n : mt(k) >= mt(j)}
            s == IF args.keep_newest
                 THEN CHOOSE j \in newest : \A k \in newest : j <= k
                 ELSE CHOOSE j \in oldest : \A k \in oldest : j >= k
        IN  /\ loop.source_file = files[s].path
            /\ Range(loop.todo) = {files[j] : j \in (1..n) \ {s}}
            /\ Len(loop.todo) = n - 1

C9_Witness ==
    /\ pc = "member" /\ loop.mi = 1
    /\ LET files == args.duplicates[loop.gi].files
       IN  /\ Len(files) >= 3
           /\ getmtime(files[2].path) = getmtime(files[3].path)
           /\ getmtime(files[1].path).val < getmtime(files[2].path).val
           /\ args.keep_newest
           /\ loop.source_file = files[2].path

OpsOn(name, p) == {k \in 1..Len(trace.ops) : trace.ops[k].op = name /\ trace.ops[k].path = p}

\* C10: in clean_duplicate_files a member is recorded success=true when
\* send2trash succeeds, or when send2trash fails and os.remove succeeds; it is
\* recorded success=false only when both send2trash and os.remove fail.
C10_FailureOnlyWhenBothFail ==
    args.strategy = "delete" =>
        /\ \A k \in 1..Len(result.details) :
             LET d == result.details[k]
             IN  ~d.success =>
                   /\ \E t \in OpsOn("send2trash", d.path) : trace.ops[t].exc # "none"
                   /\ \A t \in OpsOn("send2trash", d.path) : trace.ops[t].exc # "none"
                   /\ \E t \in OpsOn("os.remove", d.path) : trace.ops[t].exc # "none"
        /\ \A t \in 1..Len(trace.ops) :
             (trace.ops[t].exc = "none") =>
                \E k \in 1..Len(result.details) :
                    /\ result.details[k].path = trace.ops[t].path
                    /\ result.details[k].success

\* The member a group keeps, by the modification times when the call began:
\* the first of the newest members when keep, the last of the oldest otherwise.
SurvivorOf(files, keep) ==
    LET n == Len(files)
        mt(j) == Mtime0(files[j].path)
        newest == {j \in 1..n : \A k \in 1..n : mt(k) <= mt(j)}
        oldest == {j \in 1..n : \A k \in 1..n : mt(k) >= mt(j)}
    IN  files[IF keep THEN CHOOSE j \in newest : \A k \in newest : j <= k
                      ELSE CHOOSE j \in oldest : \A k \in oldest : j >= k].path
Groups == 1..Len(args.duplicates)
\* Every member of group i was there when the call began.
AllPresent(i) == \A p \in GroupPaths(args.duplicates[i]) : fs0[p].kind = "file"
NonSurvivors(i) ==
    GroupPaths(args.duplicates[i]) \ {SurvivorOf(args.duplicates[i].files, args.keep_newest)}
\* Some send2trash, os.remove, os.link or os.symlink of the run has failed.
OpFailed == \E t \in 1..Len(trace.ops) : trace.ops[t].exc # "none"
Details == 1..Len(result.details)

\* C11: when a delete, remove or link of one member has failed, the function
\* still returns instead of raising, and every non-survivor member of every
\* group has been processed.
C11_FailureNeverStopsRun ==
    (Ended /\ OpFailed) =>
        /\ pc = "returned"
        /\ \A i \in Groups : \A p \in NonSurvivors(i) : Processed(p)

\* C12: when a member has disappeared between detection and consolidation,
\* the function returns instead of raising, the member has a record with
\* success=false, and the members of the other groups are processed.
C12_MissingMemberRecorded ==
    (Ended /\ fault.kind = "vanished") =>
        /\ pc = "returned"
        /\ \E k \in Details :
             RecPath(result.details[k]) = fault.path /\ ~result.details[k].success
        /\ \A i \in Groups : AllPresent(i) => \A p \in NonSurvivors(i) : Processed(p)

\* C13: with a callback, the calls made so far are exactly one per detail
\* record, in order, each with the path of the record's member, whether the
\* record is a success or a failure.
C13_CallbackOncePerRecord ==
    args.callback # "None" =>
        /\ Len(trace.calls) = Len(result.details)
        /\ \A k \in Details : trace.calls[k] = RecPath(result.details[k])

\* What the run has done so far.
Outcome == [fs |-> fs, result |-> result, exc |-> trace.exc]

\* C14: the callback changes nothing: when a run ends, the directory, the
\* result (total_count, total_size_bytes, details) and the exception raised
\* are those of the same call on the same directory without a callback,
\* whatever the callback does.
C14_CallbackHasNoEffect ==
    Ended => Outcome = consolidate(fs0, [args EXCEPT !.callback = "None"])

Survivor(i) == SurvivorOf(args.duplicates[i].files, args.keep_newest)
\* Member p has a detail record with success=true / with success=false.
Succeeded(p) ==
    \E k \in Details : RecPath(result.details[k]) = p /\ result.details[k].success
Failed(p) ==
    \E k \in Details : RecPath(result.details[k]) = p /\ ~result.details[k].success
Returned(strategy) == pc = "returned" /\ args.strategy = strategy
\* p names the inode of the survivor s: same file, same size and content.
SharesInode(p, s) ==
    /\ fs[p].kind = "file"
    /\ fs[p].ino = fs[s].ino
    /\ getsize(p) = getsize(s)
    /\ ContentOf(p) = ContentOf(s)
\* A returned run in which one member of a group succeeded and another failed.
MixedOutcome(strategy) ==
    /\ Returned(strategy)
    /\ \E i \in Groups : \E p, q \in NonSurvivors(i) :
         Succeeded(p) /\ ~Failed(p) /\ Failed(q) /\ ~Succeeded(q)

\* C15 as stated: after replace_duplicates_with_hardlinks returns, every
\* non-survivor member of every group refers to the survivor's inode, and the
\* survivor is unchanged.
C15_AllMembersShareInode ==
    Returned("hardlink") =>
        \A i \in Groups :
            /\ fs[Survivor(i)] = fs0[Survivor(i)]
            /\ \A p \in NonSurvivors(i) : SharesInode(p, Survivor(i))

\* C15 amended: after replace_duplicates_with_hardlinks returns, every
\* non-survivor member recorded success=true refers to the survivor's inode,
\* every other non-survivor member has a record with success=false, and the
\* survivor is unchanged.
C15_SucceededMembersShareInode ==
    Returned("hardlink") =>
        \A i \in Groups :
            /\ fs[Survivor(i)] = fs0[Survivor(i)]
            /\ \A p \in NonSurvivors(i) :
                 IF Succeeded(p) THEN SharesInode(p, Survivor(i)) ELSE Failed(p)

C15_Witness == MixedOutcome("hardlink") /\ fault.kind = "nolink"

\* p is a symbolic link holding the absolute path of s, and resolves to s.
LinksTo(p, s) ==
    /\ fs[p].kind = "symlink"
    /\ fs[p].target = [abs |-> TRUE, path |-> s]
    /\ ResolveIn(fs, p) = s

\* C16 as stated: after replace_duplicates_with_symlinks returns, every
\* non-survivor member is a symbolic link to the survivor's absolute path, and
\* the survivor is a regular file.
C16_AllMembersAreLinks ==
    Returned("symlink") =>
        \A i \in Groups :
            /\ fs[Survivor(i)].kind = "file"
            /\ \A p \in NonSurvivors(i) : LinksTo(p, Survivor(i))

\* C16 amended: after replace_duplicates_with_symlinks returns, every
\* non-survivor member recorded success=true is a symbolic link to the
\* survivor's absolute path, every other non-survivor member has a record
\* with success=false, and the survivor is a regular file.
C16_SucceededMembersAreLinks ==
    Returned("symlink") =>
        \A i \in Groups :
            /\ fs[Survivor(i)].kind = "file"
            /\ \A p \in NonSurvivors(i) :
                 IF Succeeded(p) THEN LinksTo(p, Survivor(i)) ELSE Failed(p)

C16_Witness == MixedOutcome("symlink") /\ fault.kind = "noremove"

\* C17 as stated: after clean_duplicate_files returns, no non-survivor member
\* is a regular file at its path any more, and every survivor still exists.
C17_AllMembersGone ==
    Returned("delete") =>
        \A i \in Groups :
            /\ fs[Survivor(i)].kind = "file"
            /\ \A p \in NonSurvivors(i) : fs[p].kind # "file"

\* C17 amended: after clean_duplicate_files returns, no non-survivor member
\* recorded success=true is a regular file at its path any more, every other
\* non-survivor member has a record with success=false, and every survivor
\* still exists.
C17_SucceededMembersGone ==
    Returned("delete") =>
        \A i \in Groups :
            /\ fs[Survivor(i)] = fs0[Survivor(i)]
            /\ \A p \in NonSurvivors(i) :
                 IF Succeeded(p) THEN fs[p].kind # "file" ELSE Failed(p)

C17_Witness == MixedOutcome("delete") /\ fault.kind = "noremove"

\* The paths whose directory entry is not what it was when the call began.
Touched == {p \in Paths : fs[p] # fs0[p]}
\* p is in no group of the call.
NonMember(p) == \A i \in Groups : p \notin GroupPaths(args.duplicates[i])

\* C18: during and after a run of any of the three functions, the only
\* directory entries that differ from what they were when the call began are
\* non-survivor members of the groups: no entry outside the groups (unique
\* content, below min_size, symbolic link) and no survivor is removed,
\* replaced or turned into a link.  (No operation of the functions writes
\* file content: inode is changed by no action.)
C18_OnlyNonSurvivorsTouched ==
    pc # "idle" =>
        \A p \in Touched :
            \E i \in Groups :
                /\ p \in GroupPaths(args.duplicates[i])
                /\ AllPresent(i)
                /\ p # Survivor(i)

C18_Witness ==
    /\ pc = "returned"
    /\ Touched # {}
    /\ \E p \in Paths : NonMember(p) /\ fs[p].kind = "symlink"
    /\ \E p \in Paths : NonMember(p) /\ fs[p].kind = "file"

RecordsOf(p) == {k \in Details : RecPath(result.details[k]) = p}
\* The sum over groups i..n of len(group) - 1.
RECURSIVE NonSurvivorCount(_)
NonSurvivorCount(i) ==
    IF i > Len(args.duplicates) THEN 0
    ELSE Len(args.duplicates[i].files) - 1 + NonSurvivorCount(i + 1)

\* C19: the returned result holds exactly one detail record for every
\* non-survivor member of the supplied groups, so len(details) is the sum over
\* the groups of len(group) - 1, and every record with success=false carries
\* an error message.
C19_OneRecordPerMember ==
    pc = "returned" =>
        /\ \A i \in Groups : \A p \in NonSurvivors(i) : Cardinality(RecordsOf(p)) = 1
        /\ Len(result.details) = NonSurvivorCount(1)
        /\ \A k \in Details :
             ~result.details[k].success => "error" \in DOMAIN result.details[k]

\* The sum of size_bytes over the records 1..k with success=true.
RECURSIVE SucceededBytes(_)
SucceededBytes(k) ==
    IF k = 0 THEN 0
    ELSE SucceededBytes(k - 1)
           + (IF result.details[k].success THEN result.details[k].size_bytes ELSE 0)

\* C20: at every point of a run and in the returned result, total_count is
\* the number of detail records with success=true and total_size_bytes is the
\* sum of their size_bytes; failed members add to neither.
C20_TotalsCountSuccesses ==
    /\ result.total_count = Cardinality({k \in Details : result.details[k].success})
    /\ result.total_size_bytes = SucceededBytes(Len(result.details))

C20_Witness ==
    /\ pc = "returned"
    /\ result.total_size_bytes >= 2
    /\ \E k \in Details : ~result.details[k].success /\ result.details[k].size_bytes >= 1

\* C21: the functions do not change the duplicates mapping they are given:
\* during and after a run every group has the members detection returned, in
\* the same order.
C21_GroupsNotMutated ==
    (pc # "idle" /\ runs = 1) => args.duplicates = last.val

\* A run has returned after sorting a group into another order than given.
C21_Witness ==
    /\ pc = "returned" /\ runs = 1
    /\ result.total_count >= 1
    /\ loop.files_sorted # args.duplicates[Len(args.duplicates)].files

\* The size on disk, when the call began, of the first member of group i.
GroupFileSize(i) == Len(inode[fs0[args.duplicates[i].files[1].path].ino].content)
\* The sum over groups i..n of (len(group) - 1) * file size.
RECURSIVE WastedBytes(_)
WastedBytes(i) ==
    IF i > Len(args.duplicates) THEN 0
    ELSE (Len(args.duplicates[i].files) - 1) * GroupFileSize(i) + WastedBytes(i + 1)
AllOpsSucceeded == pc = "returned" /\ ~OpFailed

\* C26: the statistics of analyze_duplicate_files are the number of groups,
\* the sum of len(group) - 1 and the sum of (len(group) - 1) * file size, and
\* a consolidation of the same groups in which every member operation
\* succeeds reports them as total_count and total_size_bytes.
C26_AnalysisPredictsConsolidation ==
    (pc # "idle" /\ runs = 1 /\ fault.kind # "vanished") =>
        LET st == statistics(last.val)
        IN  /\ (pc = "group" /\ loop.gi = 1)
                 => analyze_duplicate_files(ListingOrder, min_size) = Return(st)
            /\ st.total_duplicate_sets = Cardinality(Groups)
            /\ st.total_duplicate_files = NonSurvivorCount(1)
            /\ st.total_wasted_space_bytes = WastedBytes(1)
            /\ AllOpsSucceeded =>
                 /\ result.total_count = st.total_duplicate_files
                 /\ result.total_size_bytes = st.total_wasted_space_bytes

C26_Witness ==
    /\ AllOpsSucceeded /\ runs = 1
    /\ Len(args.duplicates) = 2
    /\ result.total_size_bytes >= 1

OpsAt(p) == {t \in 1..Len(trace.ops) : trace.ops[t].path = p}

\* C27: in every state of a run over groups produced by detection, also one
\* between the operations of two members, the survivor of each group is the
\* regular file it was when the call began (no action writes content), and no
\* send2trash, os.remove, os.link or os.symlink has had it as its target.
C27_SurvivorNeverTargeted ==
    pc # "idle" =>
        \A i \in Groups :
            AllPresent(i) =>
                /\ fs[Survivor(i)].kind = "file"
                /\ fs[Survivor(i)] = fs0[Survivor(i)]
                /\ OpsAt(Survivor(i)) = {}

\* A run stopped between two members of a group, after a failed operation.
C27_Witness ==
    /\ pc = "member"
    /\ loop.mi > 1 /\ loop.mi <= Len(loop.todo)
    /\ OpFailed
    /\ args.strategy # "delete"

\* C28: in replace_duplicates_with_hardlinks and _symlinks a member with a
\* record success=false is still the regular file it was when the call began.
C28_FailedMemberUnchanged ==
    args.strategy \in {"hardlink", "symlink"} =>
        \A k \in Details :
            ~result.details[k].success =>
                /\ fs[result.details[k].target].kind = "file"
                /\ fs[result.details[k].target] = fs0[result.details[k].target]

\* C29: after a run of any strategy in which every member operation
\* succeeded, a new detection on the directory returns no group holding a
\* member of the consolidated groups, so a second pass has 0 members to
\* process and 0 bytes to report.
C29_RescanFindsNothing ==
    (AllOpsSucceeded /\ runs = 2) =>
        /\ last.exc = "none"
        /\ \A i \in Groups : \A p \in GroupPaths(args.duplicates[i]) : ~InGroup(p)
        /\ statistics(last.val).total_duplicate_files = 0
        /\ statistics(last.val).total_wasted_space_bytes = 0

\* Every path occurs at most once in the groups: in one group only, and once
\* inside it.
DisjointGroups(duplicates) ==
    \A i, j \in 1..Len(duplicates) :
        \A a \in 1..Len(duplicates[i].files), b \in 1..Len(duplicates[j].files) :
            duplicates[i].files[a].path = duplicates[j].files[b].path
                => (i = j /\ a = b)

\* C30: the groups find_duplicate_files_by_content returns are pairwise
\* disjoint and duplicate-free, so in a consolidation run the survivor of one
\* group is no removed or relinked member of another group.
C30_GroupsDisjoint ==
    /\ DisjointGroups(last.val)
    /\ pc # "idle" =>
         /\ DisjointGroups(args.duplicates)
         /\ \A i, j \in Groups :
              (i # j /\ AllPresent(i) /\ AllPresent(j)) => Survivor(i) \notin NonSurvivors(j)

C30_Witness ==
    /\ pc = "returned"
    /\ Len(args.duplicates) = 2
    /\ result.total_count >= 2
    /\ runs = 2 /\ Len(last.val) >= 1

----------------------------------------------------------------------------
(* Properties of clean_large_files.                                        *)

\* C25: when clean_large_files is called with a file_paths list, empty or
\* not, the only entries removed are regular, non-symlink files whose paths
\* are in the list; directory and min_size_bytes play no part.
C25_OnlyListedFilesRemoved ==
    (pc # "idle" /\ args.file_paths.given) =>
        \A p \in Touched :
            /\ p \in Range(args.file_paths.paths)
            /\ fs0[p].kind = "file"


----------------------------------------------------------------------------
(* Properties of the menu loop.                                            *)

Destructive ==
    {"clean_duplicate_files", "replace_duplicates_with_hardlinks",
     "replace_duplicates_with_symlinks", "clean_large_files",
     "clean_system_temp_files", "clean_browser_caches", "clean_package_caches"}
\* The events of the current menu action that are calls of scans or cleaners.
Work == {i \in 1..Len(trace.calls) : trace.calls[i] \in Destructive \cup {"scan"}}
\* The user chose Cancel/Back in a cleaning menu or answered no.
Declined ==
    \/ /\ args.action \in {"clean_temp_files", "clean_duplicates"}
       /\ args.choice = 4
    \/ \E i \in 1..Len(trace.calls) : trace.calls[i] = "confirm_action=False"
\* The menu action is over and the program is on its way to the main menu,
\* unless the user interrupts it there.
BackToMenu == pc \in {"pause", "menu"} \/ (pc = "exited" /\ trace.exc = interrupted("pause"))

\* C22: every call of a destructive operation is preceded, within the same
\* menu action, by a confirm_action prompt that returned True; after
\* Cancel/Back or the answer no the program is back at the main menu, no
\* destructive operation was called and the file system is as it was.
C22_ConfirmedBeforeDestructive ==
    /\ \A i \in 1..Len(trace.calls) :
         trace.calls[i] \in Destructive =>
           \E j \in 1..(i - 1) : trace.calls[j] = "confirm_action=True"
    /\ Declined =>
         /\ BackToMenu
         /\ fs = fs0
         /\ \A i \in 1..Len(trace.calls) : trace.calls[i] \notin Destructive

C22_Witness ==
    /\ pc = "pause"
    /\ fs # fs0
    /\ \E i \in 1..Len(trace.calls) : trace.calls[i] \in Destructive
    /\ \E i \in 1..Len(trace.calls) : trace.calls[i] = "confirm_action=True"

\* The entered root path does not exist, or the entered size is one that
\* parse_size refuses with ValueError.
Rejected ==
    \/ /\ args.action \in {"analyze_directory", "analyze_duplicates",
                           "clean_large_files_menu", "clean_duplicates"}
       /\ ~args.dir_exists
    \/ /\ args.size_entered
       /\ parse_size(args.size_str) = Raise("ValueError")

\* C23: when the entered root path does not exist or the entered size string
\* is invalid, the action reports an error and returns before any scan or
\* cleaning function has been invoked, and nothing has been changed.
C23_RejectedBeforeAnyWork ==
    Rejected =>
      /\ BackToMenu
      /\ \E i \in 1..Len(trace.calls) : trace.calls[i] = "print_error"
      /\ Work = {}
      /\ fs = fs0

C23_Witness ==
    /\ pc = "pause"
    /\ args.size_entered
    /\ Len(args.size_str) = MaxSizeStr
    /\ parse_size(args.size_str) = Raise("ValueError")
    /\ trace.calls = <<"print_error">>

\* The process was ended by Ctrl-C at a prompt.
UserInterrupt == \E pos \in Prompts : trace.exc = interrupted(pos)

\* C24: an exception that escapes a menu action is caught at the top level,
\* reported with an error message and ends the process with a non-zero
\* status, however the program was started; the Exit option and a keyboard
\* interrupt end it with status 0.
C24_TopLevelCatchesAll ==
    pc = "exited" =>
      IF trace.exc = "SystemExit" THEN result.status = 0
      ELSE IF UserInterrupt THEN result.status = 0
      ELSE result.caught /\ result.report = "print_error" /\ result.status # 0

=============================================================================
